---------------------------- MODULE Spec2Model ----------------------------
(***************************************************************************)
(* A model of awswrapper/ec2wrapper.py: the tag extraction                 *)
(* (get_tags_from_instance), the tag filter                                *)
(* (are_any_filter_tags_on_instance, list_instances_without_tag) and the   *)
(* filter list handling of describe_instances_by_tag_filters.              *)
(*                                                                         *)
(* Python values are modelled as follows.                                  *)
(*   - a str is Str(s), s a sequence of one-character strings; None is     *)
(*     the value None below;                                               *)
(*   - a dict with string keys is a function whose DOMAIN is the set of    *)
(*     keys present ("k" in d  is  "k" \in DOMAIN d);                      *)
(*   - a list is a sequence;                                               *)
(*   - the criteria dict tags_filter is the sequence of its                *)
(*     <<key, pattern>> items in the dict's iteration order, keys distinct;*)
(*   - a call's outcome is [exc, val]: exc = "" and the returned value,    *)
(*     or the name of the exception that left the call.                    *)
(***************************************************************************)
EXTENDS Integers, Sequences, FiniteSets, TLC

VARIABLES
    ec2_instances,   \* the caller's response object {'Reservations': [...]}
    tags_filter,     \* the caller's criteria dict
    call,            \* the last call made: [fn, r, i]
    ret,             \* the outcome of the last call
    rem,             \* a remembered earlier call and its outcome
    tag_filters,     \* the caller's list handed to describe_instances_by_tag_filters
    Filters,         \* the Filters= argument last sent to ec2.describe_instances
    sent,            \* whether the last call reached ec2.describe_instances
    orig_filters,    \* the caller's list as it was before any call (history)
    states_given,    \* the non-None state arguments of the calls so far (history)
    ncalls,          \* the describe_instances_by_tag_filters calls so far (history)
    proc             \* "running", or "exited" after sys.exit

vars == <<ec2_instances, tags_filter, call, ret, rem, tag_filters, Filters,
          sent, orig_filters, states_given, ncalls, proc>>

filter_vars == <<ec2_instances, tags_filter, call, ret, rem>>
describe_vars == <<tag_filters, Filters, sent, orig_filters, states_given,
                   ncalls, proc>>

----------------------------------------------------------------------------
(* Bounds of the model. *)

MaxTags == 2
MaxValLen == 2
MaxPatLen == 2
MaxInstances == 3
MaxFilters == 2
MaxCalls == 3

----------------------------------------------------------------------------
(* Python values and outcomes. *)

None == [t |-> "NoneType", v |-> <<>>]

Str(s) == [t |-> "str", v |-> s]

\* bool(x) of a str or None: false for None and for ''.
Truthy(x) == x.t = "str" /\ x.v # <<>>

Return(v) == [exc |-> "", val |-> v]

Raise(e) == [exc |-> e, val |-> <<>>]

EmptyDict == [k \in {} |-> None]

\* d.setdefault(k, v): the first value written for a key stays.
dict_setdefault(d, k, v) ==
    [x \in (DOMAIN d) \cup {k} |-> IF x \in DOMAIN d THEN d[x] ELSE v]

\* d[k] = v
dict_set(d, k, v) == [x \in (DOMAIN d) \cup {k} |-> IF x = k THEN v ELSE d[x]]

\* d.get(k, default)
dict_get(d, k, default) == IF k \in DOMAIN d THEN d[k] ELSE default

----------------------------------------------------------------------------
(* get_tags_from_instance, lines 53-64. *)

\* tag_step without the KeyError: an entry lacking a key is passed over.
tag_step_lenient(instances_data_tags, tag) ==
    IF "Key" \notin DOMAIN tag \/ "Value" \notin DOMAIN tag
    THEN Return(instances_data_tags)
    ELSE IF tag.Value # None
         THEN Return([x \in (DOMAIN instances_data_tags) \cup {tag.Key} |->
                         IF x = tag.Key THEN tag.Value ELSE instances_data_tags[x]])
         ELSE Return(instances_data_tags)

\* tag_step without the test of line 61: a None value is stored as well.
tag_step_unchecked(instances_data_tags, tag) ==
    IF "Key" \notin DOMAIN tag \/ "Value" \notin DOMAIN tag
    THEN Raise("KeyError")
    ELSE Return([x \in (DOMAIN instances_data_tags) \cup {tag.Key} |->
                    IF x = tag.Key THEN tag.Value ELSE instances_data_tags[x]])

\* One turn of the for loop, lines 57-62: tag['Key'] and tag['Value'] raise
\* KeyError when the key is missing; a value that is None is skipped.
tag_step(instances_data_tags, tag) ==
    IF "Key" \notin DOMAIN tag THEN Raise("KeyError")
    ELSE IF "Value" \notin DOMAIN tag THEN Raise("KeyError")
    ELSE LET tag_name == tag.Key
             tag_value == tag.Value
         IN  IF tag_value # None
             THEN Return(dict_set(instances_data_tags, tag_name, tag_value))
             ELSE Return(instances_data_tags)

RECURSIVE tags_loop(_, _, _)
tags_loop(Tags, k, instances_data_tags) ==
    IF k > Len(Tags) THEN Return(instances_data_tags)
    ELSE LET o == tag_step(instances_data_tags, Tags[k])
         IN  IF o.exc # "" THEN o ELSE tags_loop(Tags, k + 1, o.val)

\* The dict kept between calls (a module-level dict, or a mutable default
\* argument): a call starts from what the call before it returned.
shared_tags ==
    IF call.fn = "get_tags_from_instance" /\ ret.exc = "" THEN ret.val ELSE EmptyDict

\* The dict the function starts from, line 54.
fresh_tags == EmptyDict

\* get_tags_from_instance reading instance['Tags'] without the test of line 55.
get_tags_unguarded(instance) ==
    IF "Tags" \in DOMAIN instance
    THEN tags_loop(instance.Tags, 1, fresh_tags)
    ELSE Raise("KeyError")

get_tags_from_instance(instance) ==
    IF "Tags" \in DOMAIN instance
    THEN tags_loop(instance.Tags, 1, fresh_tags)
    ELSE Return(fresh_tags)

----------------------------------------------------------------------------
(* re.search(pattern, string), as line 87 uses it.  A pattern is a         *)
(* sequence of tokens: a literal character, "." (any character), "^"       *)
(* (start of the string), "$" (end of the string) and "*" (the preceding   *)
(* character or "." repeated zero or more times).                          *)

Chars == {"a", "b"}

Tokens == Chars \cup {".", "^", "$", "*"}

\* re.compile accepts the pattern: a "*" needs a character or "." before it
\* ("nothing to repeat" after "^", "$" or at the start, "multiple repeat"
\* after another "*").
ValidRegex(p) ==
    \A i \in 1..Len(p) : p[i] = "*" => (i > 1 /\ p[i - 1] \in Chars \cup {"."})

TokMatches(tok, c) == tok = "." \/ tok = c

\* Whether s[from .. from+n-1] consists of characters tok accepts.
RunMatches(tok, s, from, n) ==
    \A q \in from..(from + n - 1) : TokMatches(tok, s[q])

\* The backtracking matcher: can p[i..] match s starting at position pos.
RECURSIVE MatchAt(_, _, _, _)
MatchAt(p, i, s, pos) ==
    IF i > Len(p) THEN TRUE
    ELSE IF p[i] = "^" THEN pos = 1 /\ MatchAt(p, i + 1, s, pos)
    ELSE IF p[i] = "$" THEN pos = Len(s) + 1 /\ MatchAt(p, i + 1, s, pos)
    ELSE IF i < Len(p) /\ p[i + 1] = "*"
         THEN \E n \in 0..(Len(s) + 1 - pos) :
                  RunMatches(p[i], s, pos, n) /\ MatchAt(p, i + 2, s, pos + n)
         ELSE pos <= Len(s) /\ TokMatches(p[i], s[pos])
              /\ MatchAt(p, i + 1, s, pos + 1)

\* re.match in place of re.search: a match starts at the first character.
match_at_start(p, s) == MatchAt(p, 1, s, 1)

\* The scan of re.search: a match may start at any position of the string.
search_scan(p, s) == \E pos \in 1..(Len(s) + 1) : MatchAt(p, 1, s, pos)

\* re.search guarded against a pattern that is None or does not compile:
\* such a pattern matches nothing.
re_search_guarded(pattern, string) ==
    IF pattern.t # "str" \/ ~ValidRegex(pattern.v) THEN Return(FALSE)
    ELSE Return(\E pos \in 1..(Len(string.v) + 1) : MatchAt(pattern.v, 1, string.v, pos))

\* re.search: TypeError for a pattern that is no string, re.error for one
\* that does not compile, else whether a match object is returned.
re_search(pattern, string) ==
    IF pattern.t # "str" THEN Raise("TypeError")
    ELSE IF ~ValidRegex(pattern.v) THEN Raise("error")
    ELSE Return(search_scan(pattern.v, string.v))

----------------------------------------------------------------------------
(* are_any_filter_tags_on_instance, lines 83-91. *)

RECURSIVE filter_loop(_, _, _)
filter_loop(tf, instances_tags, k) ==
    IF k > Len(tf) THEN Return(FALSE)
    ELSE LET filter_tag == tf[k][1]
             filtered_tag_in_instance == dict_get(instances_tags, filter_tag, Str(<<>>))
             pattern == tf[k][2]
             tags_values_match == re_search(pattern, filtered_tag_in_instance)
         IN  IF tags_values_match.exc # "" THEN tags_values_match
             ELSE IF Truthy(filtered_tag_in_instance) /\ tags_values_match.val
                  THEN Return(TRUE)
                  ELSE filter_loop(tf, instances_tags, k + 1)

are_any_filter_tags_on_instance(tf, instances_tags) ==
    filter_loop(tf, instances_tags, 1)

----------------------------------------------------------------------------
(* list_instances_without_tag, lines 68-80. *)

\* instance_step with insert(0, instance_data) in place of append.
instance_step_prepend(tf, instance, instances_without_tags) ==
    LET instance_tags == get_tags_from_instance(instance)
    IN  IF instance_tags.exc # "" THEN instance_tags
        ELSE LET any == are_any_filter_tags_on_instance(tf, instance_tags.val)
             IN  IF any.exc # "" THEN any
                 ELSE IF ~any.val
                      THEN Return(<<[InstanceId |-> instance.InstanceId,
                                     Name |-> IF "Name" \in DOMAIN instance_tags.val
                                              THEN instance_tags.val["Name"]
                                              ELSE Str(<<>>)]>>
                                  \o instances_without_tags)
                      ELSE Return(instances_without_tags)

\* instance_step with instance_tags.get('Name'): None when there is no Name.
instance_step_get(tf, instance, instances_without_tags) ==
    LET instance_tags == get_tags_from_instance(instance)
    IN  IF instance_tags.exc # "" THEN instance_tags
        ELSE LET any == are_any_filter_tags_on_instance(tf, instance_tags.val)
             IN  IF any.exc # "" THEN any
                 ELSE IF ~any.val
                      THEN Return(Append(instances_without_tags,
                               [InstanceId |-> instance.InstanceId,
                                Name |-> dict_get(instance_tags.val, "Name", None)]))
                      ELSE Return(instances_without_tags)

\* The body of the inner loop, lines 73-78, on the list built so far.
instance_step(tf, instance, instances_without_tags) ==
    LET instance_tags == get_tags_from_instance(instance)
    IN  IF instance_tags.exc # "" THEN instance_tags
        ELSE LET any == are_any_filter_tags_on_instance(tf, instance_tags.val)
             IN  IF any.exc # "" THEN any
                 ELSE IF ~any.val
                      THEN Return(Append(instances_without_tags,
                               [InstanceId |-> instance.InstanceId,
                                Name |-> IF "Name" \in DOMAIN instance_tags.val
                                         THEN instance_tags.val["Name"]
                                         ELSE Str(<<>>)]))
                      ELSE Return(instances_without_tags)

RECURSIVE instances_loop(_, _, _, _)
instances_loop(tf, Instances, i, instances_without_tags) ==
    IF i > Len(Instances) THEN Return(instances_without_tags)
    ELSE LET o == instance_step(tf, Instances[i], instances_without_tags)
         IN  IF o.exc # "" THEN o ELSE instances_loop(tf, Instances, i + 1, o.val)

RECURSIVE reservations_loop(_, _, _, _)
reservations_loop(tf, Reservations, r, instances_without_tags) ==
    IF r > Len(Reservations) THEN Return(instances_without_tags)
    ELSE LET o == instances_loop(tf, Reservations[r].Instances, 1, instances_without_tags)
         IN  IF o.exc # "" THEN o ELSE reservations_loop(tf, Reservations, r + 1, o.val)

list_instances_without_tag(tf, instances) ==
    reservations_loop(tf, instances.Reservations, 1, <<>>)

----------------------------------------------------------------------------
(* describe_instances_by_tag_filters, lines 223-242. *)

state_filter(state) == [Name |-> "instance-state-name", Values |-> <<state>>]

\* filters = list(tag_filters): the append is made to a copy.
describe_filters_copy(tf, state) ==
    IF state # None
    THEN [caller |-> tf, filters |-> Append(tf, state_filter(state))]
    ELSE [caller |-> tf, filters |-> tf]

\* Lines 224-232: filters is the caller's list itself, so the append is made
\* to both.  caller is the caller's list after the call, filters the local.
describe_filters(tf, state) ==
    IF state # None
    THEN [caller |-> Append(tf, state_filter(state)),
          filters |-> Append(tf, state_filter(state))]
    ELSE [caller |-> tf, filters |-> tf]

----------------------------------------------------------------------------
(* The inputs the calls are made on. *)

SeqsUpTo(S, n) == UNION {[1..m -> S] : m \in 0..n}

StrsUpTo(S, n) == {Str(w) : w \in SeqsUpTo(S, n)}

\* Tags[] entries of a response: well formed, and lacking a key.
TagKeys == {"Name", "Env"}

TagValues == {None, Str(<<"a">>), Str(<<"b">>)}

TagDicts ==
    {[Key |-> k, Value |-> v] : k \in TagKeys, v \in TagValues}
    \cup {[Key |-> k] : k \in TagKeys}
    \cup {[Value |-> v] : v \in TagValues}

\* The n-th instance of a response, with or without a Tags field.
InstanceId(n) == ToString(n)

Instance(n, Tags) == [InstanceId |-> InstanceId(n), Tags |-> Tags]

BareInstance(n) == [InstanceId |-> InstanceId(n)]

OneReservation(instances) == [Reservations |-> <<[Instances |-> instances]>>]

NoCall == [fn |-> "", r |-> 0, i |-> 0]

NoRet == Return(<<>>)

NothingRemembered == [call |-> NoCall, ret |-> NoRet]

\* The describe_instances_by_tag_filters part at rest.
DescribeIdle ==
    /\ tag_filters = <<>>
    /\ Filters = <<>>
    /\ sent = FALSE
    /\ orig_filters = <<>>
    /\ states_given = <<>>
    /\ ncalls = 0
    /\ proc = "running"

FilterIdle ==
    /\ call = NoCall
    /\ ret = NoRet
    /\ rem = NothingRemembered

\* One instance with any Tags list, malformed entries included; no criteria.
InitTags ==
    /\ ec2_instances \in
           {OneReservation(<<BareInstance(1)>>)}
           \cup {OneReservation(<<Instance(1, T)>>) : T \in SeqsUpTo(TagDicts, MaxTags)}
    /\ tags_filter \in {<<>>, <<<<"Env", Str(<<"a">>)>>>>}

\* One instance with at most an Env tag, one criterion on Env: every value
\* against every pattern, valid or not.
WideValues == StrsUpTo(Chars, MaxValLen) \cup {None}

WidePatterns == StrsUpTo(Tokens, MaxPatLen) \cup {None}

InitMatch ==
    /\ ec2_instances \in
           {OneReservation(<<Instance(1, <<>>)>>)}
           \cup {OneReservation(<<Instance(1, <<[Key |-> "Env", Value |-> v]>>)>>) :
                     v \in WideValues}
    /\ tags_filter \in {<<<<"Env", p>>>> : p \in WidePatterns}

\* Several instances in reservations, several criteria.
SampleTags ==
    {<<[Key |-> "Env", Value |-> Str(<<"b", "a">>)],
       [Key |-> "Name", Value |-> Str(<<"a", "b">>)]>>,
     <<[Key |-> "Owner", Value |-> Str(<<"a">>)],
       [Key |-> "Name", Value |-> None]>>}

SampleInstance(n) == {BareInstance(n)} \cup {Instance(n, T) : T \in SampleTags}

SampleInstanceLists ==
    UNION {{f \in [1..m -> UNION {SampleInstance(n) : n \in 1..m}] :
               \A n \in 1..m : f[n] \in SampleInstance(n)} : m \in 0..MaxInstances}

Responses(flat) ==
    {[Reservations |-> <<>>] : x \in {y \in {0} : flat = <<>>}}
    \cup {OneReservation(flat)}
    \cup {[Reservations |-> <<[Instances |-> SubSeq(flat, 1, k)],
                              [Instances |-> SubSeq(flat, k + 1, Len(flat))]>>] :
              k \in 0..Len(flat)}

FilterKeys == {"Env", "Owner"}

SamplePatterns == {Str(<<"a">>), Str(<<"^", "a", "$">>), None, Str(<<"*">>)}

\* The criteria dicts: every iteration order of every set of keys.
Criteria ==
    {tf \in SeqsUpTo(FilterKeys \X SamplePatterns, Cardinality(FilterKeys)) :
        \A i, j \in 1..Len(tf) : i # j => tf[i][1] # tf[j][1]}

InitList ==
    /\ ec2_instances \in UNION {Responses(flat) : flat \in SampleInstanceLists}
    /\ tags_filter \in Criteria

Init ==
    /\ InitTags \/ InitMatch \/ InitList
    /\ FilterIdle
    /\ DescribeIdle

----------------------------------------------------------------------------
(* The calls. *)

Positions ==
    {<<r, i>> \in (1..Len(ec2_instances.Reservations)) \X (1..MaxInstances) :
        i <= Len(ec2_instances.Reservations[r].Instances)}

InstanceAt(r, i) == ec2_instances.Reservations[r].Instances[i]

\* get_tags_from_instance(instance) on the instance at <<r, i>>.
CallGetTags(r, i) ==
    /\ call' = [fn |-> "get_tags_from_instance", r |-> r, i |-> i]
    /\ ret' = get_tags_from_instance(InstanceAt(r, i))
    /\ UNCHANGED <<ec2_instances, tags_filter, describe_vars>>

\* are_any_filter_tags_on_instance(tags_filter, instance_tags) on the tags
\* get_tags_from_instance returned for the instance at <<r, i>>.
CallAreAny(r, i) ==
    /\ get_tags_from_instance(InstanceAt(r, i)).exc = ""
    /\ call' = [fn |-> "are_any_filter_tags_on_instance", r |-> r, i |-> i]
    /\ ret' = are_any_filter_tags_on_instance(
                  tags_filter, get_tags_from_instance(InstanceAt(r, i)).val)
    /\ UNCHANGED <<ec2_instances, tags_filter, describe_vars>>

\* list_instances_without_tag(tags_filter, ec2_instances).
CallList ==
    /\ call' = [fn |-> "list_instances_without_tag", r |-> 0, i |-> 0]
    /\ ret' = list_instances_without_tag(tags_filter, ec2_instances)
    /\ UNCHANGED <<ec2_instances, tags_filter, describe_vars>>

GetTags == \E p \in Positions : CallGetTags(p[1], p[2]) /\ UNCHANGED rem

AreAny == \E p \in Positions : CallAreAny(p[1], p[2]) /\ UNCHANGED rem

ListWithoutTag == CallList /\ UNCHANGED rem

Next == GetTags \/ AreAny \/ ListWithoutTag

Spec == Init /\ [][Next]_vars

----------------------------------------------------------------------------
(* The same calls, with one earlier call and its outcome kept in rem, on   *)
(* responses of several instances in one reservation.                      *)

InitPure ==
    /\ ec2_instances \in {OneReservation(flat) : flat \in SampleInstanceLists}
    /\ tags_filter \in {tf \in Criteria : Len(tf) <= 1}
    /\ FilterIdle
    /\ DescribeIdle

\* rem keeps what it held, or takes the call made before this one.
Remember == rem' \in {rem, [call |-> call, ret |-> ret]}

GetTagsPure == \E p \in Positions : CallGetTags(p[1], p[2]) /\ Remember

AreAnyPure == \E p \in Positions : CallAreAny(p[1], p[2]) /\ Remember

ListWithoutTagPure == CallList /\ Remember

NextPure == GetTagsPure \/ AreAnyPure \/ ListWithoutTagPure

SpecPure == InitPure /\ [][NextPure]_vars

----------------------------------------------------------------------------
(* Calls of describe_instances_by_tag_filters(tag_filters, state) that     *)
(* reuse the caller's list.  After the filters are built (lines 224-232)   *)
(* get_ec2_connection may sys.exit (line 10), ec2.describe_instances may   *)
(* raise, and a response without 'Reservations' ends in sys.exit           *)
(* (line 240).                                                             *)

\* The content of these strings plays no part: each is kept whole.
StateArgs == {None, Str(<<"running">>), Str(<<"stopped">>)}

TagFilterDicts ==
    {[Name |-> "tag:Env", Values |-> <<Str(<<"prod">>)>>],
     [Name |-> "tag:Owner", Values |-> <<Str(<<"ops">>)>>]}

InitDescribe ==
    /\ tag_filters \in SeqsUpTo(TagFilterDicts, MaxFilters)
    /\ orig_filters = tag_filters
    /\ Filters = <<>>
    /\ sent = FALSE
    /\ states_given = <<>>
    /\ ncalls = 0
    /\ proc = "running"
    /\ ec2_instances = [Reservations |-> <<>>]
    /\ tags_filter = <<>>
    /\ FilterIdle

\* Lines 224-232 and the bookkeeping of the call.
BuildFilters(state) ==
    /\ proc = "running"
    /\ ncalls < MaxCalls
    /\ tag_filters' = describe_filters(tag_filters, state).caller
    /\ states_given' = IF state # None THEN Append(states_given, state)
                       ELSE states_given
    /\ ncalls' = ncalls + 1
    /\ call' = [fn |-> "describe_instances_by_tag_filters", r |-> 0, i |-> 0]
    /\ UNCHANGED <<orig_filters, ec2_instances, tags_filter, rem>>

\* Line 235 is reached with Filters=filters.
SendFilters(state) ==
    /\ Filters' = describe_filters(tag_filters, state).filters
    /\ sent' = TRUE

\* The response holds 'Reservations': the call returns it.
DescribeReturns ==
    \E state \in StateArgs :
        BuildFilters(state) /\ SendFilters(state) /\ proc' = "running"
        /\ ret' = Return([Reservations |-> <<>>])

\* get_ec2_connection exits the process before anything is sent.
DescribeConnectExit ==
    \E state \in StateArgs :
        BuildFilters(state) /\ sent' = FALSE /\ UNCHANGED Filters
        /\ proc' = "exited"
        /\ ret' = Raise("SystemExit")

\* ec2.describe_instances raises; the exception leaves the call.
DescribeSdkRaises ==
    \E state \in StateArgs :
        BuildFilters(state) /\ SendFilters(state) /\ proc' = "running"
        /\ ret' = Raise("ClientError")

\* The response holds no 'Reservations': sys.exit.
DescribeNoReservations ==
    \E state \in StateArgs :
        BuildFilters(state) /\ SendFilters(state) /\ proc' = "exited"
        /\ ret' = Raise("SystemExit")

NextDescribe ==
    \/ DescribeReturns
    \/ DescribeConnectExit
    \/ DescribeSdkRaises
    \/ DescribeNoReservations

SpecDescribe == InitDescribe /\ [][NextDescribe]_vars

----------------------------------------------------------------------------
(* What the claims speak of, stated on the inputs alone. *)

IsGetTagsCall == call.fn = "get_tags_from_instance"

IsAreAnyCall == call.fn = "are_any_filter_tags_on_instance"

IsListCall == call.fn = "list_instances_without_tag"

\* The instance the last get_tags_from_instance or
\* are_any_filter_tags_on_instance call was made on.
CalledInstance == InstanceAt(call.r, call.i)

HasTagsField(instance) == "Tags" \in DOMAIN instance

TagsOf(instance) == IF HasTagsField(instance) THEN instance.Tags ELSE <<>>

WellFormedTag(tag) == "Key" \in DOMAIN tag /\ "Value" \in DOMAIN tag

WellFormed(instance) ==
    \A k \in 1..Len(TagsOf(instance)) : WellFormedTag(TagsOf(instance)[k])

\* The places of the Tags list that hold name with a set value.
SetPlaces(instance, name) ==
    {k \in 1..Len(TagsOf(instance)) :
        /\ WellFormedTag(TagsOf(instance)[k])
        /\ TagsOf(instance)[k].Key = name
        /\ TagsOf(instance)[k].Value # None}

\* The places that hold name, set or not.
Places(instance, name) ==
    {k \in 1..Len(TagsOf(instance)) :
        WellFormedTag(TagsOf(instance)[k]) /\ TagsOf(instance)[k].Key = name}

Last(S) == CHOOSE k \in S : \A j \in S : j <= k

NamesOf(instance) ==
    {TagsOf(instance)[k].Key : k \in {j \in 1..Len(TagsOf(instance)) :
                                         WellFormedTag(TagsOf(instance)[j])}}

----------------------------------------------------------------------------
(* C9: for every instance record that has no Tags field,                   *)
(* get_tags_from_instance returns an empty map.                            *)
C9_NoTagsFieldGivesEmptyMap ==
    (IsGetTagsCall /\ ~HasTagsField(CalledInstance))
        => (ret.exc = "" /\ DOMAIN ret.val = {})

C9_Witness ==
    IsGetTagsCall /\ ~HasTagsField(CalledInstance) /\ ret.exc = ""

(* C4, as claimed: get_tags_from_instance has no error outcome; a record   *)
(* without a Tags field, or with a tag pair lacking its Key or its Value,  *)
(* completes normally and the absent or malformed data contributes         *)
(* nothing to the returned map.                                            *)
C4_NoErrorOutcome ==
    IsGetTagsCall =>
        /\ ret.exc = ""
        /\ DOMAIN ret.val =
               {n \in NamesOf(CalledInstance) : SetPlaces(CalledInstance, n) # {}}

(* C4, amended: get_tags_from_instance completes normally exactly when     *)
(* every pair of the Tags list holds both Key and Value (a record without  *)
(* a Tags field completes normally with the empty map); a pair lacking its *)
(* Key or its Value makes the call raise KeyError.                         *)
C4_KeyErrorOnMalformedPair ==
    IsGetTagsCall =>
        /\ ret.exc = "" <=> WellFormed(CalledInstance)
        /\ ~WellFormed(CalledInstance) => ret.exc = "KeyError"
        /\ ~HasTagsField(CalledInstance) => ret = Return(EmptyDict)

C4_Witness ==
    /\ IsGetTagsCall
    /\ \E k \in 1..Len(TagsOf(CalledInstance)) :
           /\ ~WellFormedTag(TagsOf(CalledInstance)[k])
           /\ \A j \in 1..(k - 1) : WellFormedTag(TagsOf(CalledInstance)[j])
    /\ ret.exc = "KeyError"

(* C3, as claimed: every tag pair whose value is unset has its name absent *)
(* from the returned map, also when the Tags list holds the same name more *)
(* than once, and the map never holds an unset value.                      *)
C3_UnsetNameAbsent ==
    (IsGetTagsCall /\ ret.exc = "") =>
        /\ \A k \in 1..Len(TagsOf(CalledInstance)) :
               TagsOf(CalledInstance)[k].Value = None
                   => TagsOf(CalledInstance)[k].Key \notin DOMAIN ret.val
        /\ \A n \in DOMAIN ret.val : ret.val[n] # None

(* C3, amended: the returned map holds a name exactly when some pair of    *)
(* that name has a set value, so the name of a pair with an unset value is *)
(* absent unless another pair of the same name has a set value; the map    *)
(* never holds an unset value.                                             *)
C3_NameAbsentUnlessSetElsewhere ==
    (IsGetTagsCall /\ ret.exc = "") =>
        /\ DOMAIN ret.val =
               {n \in NamesOf(CalledInstance) : SetPlaces(CalledInstance, n) # {}}
        /\ \A n \in DOMAIN ret.val : ret.val[n] # None

C3_Witness ==
    /\ IsGetTagsCall
    /\ ret.exc = ""
    /\ \E n \in NamesOf(CalledInstance) :
           /\ SetPlaces(CalledInstance, n) # {}
           /\ Places(CalledInstance, n) # SetPlaces(CalledInstance, n)
           /\ n \in DOMAIN ret.val

(* C7, as claimed: when the Tags list holds the same name more than once,  *)
(* the returned map holds for that name the value of the later pair.       *)
C7_LaterPairWins ==
    (IsGetTagsCall /\ ret.exc = "") =>
        \A n \in NamesOf(CalledInstance) :
            Cardinality(Places(CalledInstance, n)) > 1 =>
                (IF n \in DOMAIN ret.val THEN ret.val[n] ELSE None)
                    = TagsOf(CalledInstance)[Last(Places(CalledInstance, n))].Value

(* C7, amended: when the Tags list holds the same name more than once, the *)
(* returned map holds for that name the value of the last pair of that     *)
(* name whose value is set; a later pair with an unset value overwrites    *)
(* nothing.                                                                *)
C7_LastSetPairWins ==
    (IsGetTagsCall /\ ret.exc = "") =>
        \A n \in NamesOf(CalledInstance) :
            SetPlaces(CalledInstance, n) # {} =>
                /\ n \in DOMAIN ret.val
                /\ ret.val[n] = TagsOf(CalledInstance)[Last(SetPlaces(CalledInstance, n))].Value

C7_Witness ==
    /\ IsGetTagsCall
    /\ ret.exc = ""
    /\ \E n \in NamesOf(CalledInstance) :
           \E j, k \in SetPlaces(CalledInstance, n) :
               /\ j < k
               /\ TagsOf(CalledInstance)[j].Value # TagsOf(CalledInstance)[k].Value
               /\ ret.val[n] = TagsOf(CalledInstance)[k].Value

----------------------------------------------------------------------------
(* Regular expressions by what they denote: the pattern is a sequence of   *)
(* atoms, and a stretch of the string matches it when the stretch can be   *)
(* cut into one piece per atom.                                            *)

RECURSIVE Atoms(_)
Atoms(p) ==
    IF p = <<>> THEN <<>>
    ELSE IF Len(p) > 1 /\ p[2] = "*"
         THEN <<[tok |-> p[1], star |-> TRUE]>> \o Atoms(SubSeq(p, 3, Len(p)))
         ELSE <<[tok |-> p[1], star |-> FALSE]>> \o Atoms(SubSeq(p, 2, Len(p)))

\* Atom a matches the piece s[from .. to-1] of s.
AtomSpan(a, s, from, to) ==
    IF a.tok = "^" THEN from = to /\ from = 1
    ELSE IF a.tok = "$" THEN from = to /\ from = Len(s) + 1
    ELSE /\ \A x \in from..(to - 1) : a.tok = "." \/ s[x] = a.tok
         /\ a.star \/ to = from + 1

\* The stretch s[i .. j] of s matches the atoms.
Denotes(atoms, s, i, j) ==
    \E cut \in [0..Len(atoms) -> i..(j + 1)] :
        /\ cut[0] = i
        /\ cut[Len(atoms)] = j + 1
        /\ \A k \in 1..Len(atoms) :
               cut[k - 1] <= cut[k] /\ AtomSpan(atoms[k], s, cut[k - 1], cut[k])

\* Some stretch of s matches p (a substring search).
SubstringMatches(p, s) ==
    \E i \in 1..(Len(s) + 1) : \E j \in (i - 1)..Len(s) : Denotes(Atoms(p), s, i, j)

\* The whole of s matches p (a full match).
WholeMatches(p, s) == Denotes(Atoms(p), s, 1, Len(s))

UsablePattern(pattern) == pattern.t = "str" /\ ValidRegex(pattern.v)

\* The tag map of a well-formed instance: for each name the last set value.
TagMapOf(instance) ==
    [n \in {m \in NamesOf(instance) : SetPlaces(instance, m) # {}} |->
        TagsOf(instance)[Last(SetPlaces(instance, n))].Value]

\* Criterion c = <<tagName, pattern>> is satisfied by the instance.
Satisfied(c, instance) ==
    /\ c[1] \in DOMAIN TagMapOf(instance)
    /\ TagMapOf(instance)[c[1]].v # <<>>
    /\ UsablePattern(c[2])
    /\ SubstringMatches(c[2].v, TagMapOf(instance)[c[1]].v)

Tagged(instance) == \E k \in 1..Len(tags_filter) : Satisfied(tags_filter[k], instance)

\* The loop of are_any_filter_tags_on_instance reaches a criterion whose
\* pattern is None or no regular expression before a satisfied one.
FirstUnusable(instance) ==
    {k \in 1..Len(tags_filter) :
        /\ ~UsablePattern(tags_filter[k][2])
        /\ \A j \in 1..(k - 1) :
               /\ UsablePattern(tags_filter[j][2])
               /\ ~Satisfied(tags_filter[j], instance)}

\* The instances of the response in order, reservation by reservation.
RECURSIVE Flat(_)
Flat(Reservations) ==
    IF Reservations = <<>> THEN <<>>
    ELSE Head(Reservations).Instances \o Flat(Tail(Reservations))

AllInstances == Flat(ec2_instances.Reservations)

RECURSIVE Untagged(_)
Untagged(instances) ==
    IF instances = <<>> THEN <<>>
    ELSE (IF Tagged(Head(instances)) THEN <<>> ELSE <<Head(instances)>>)
         \o Untagged(Tail(instances))

\* The call fails on this instance.
Fails(instance) == ~WellFormed(instance) \/ FirstUnusable(instance) # {}

----------------------------------------------------------------------------
(* C1: list_instances_without_tag leaves an instance out of its result if  *)
(* and only if at least one criterion is satisfied, a criterion being      *)
(* satisfied exactly when the extracted tag map has a non-empty value for  *)
(* its name and the value matches its pattern as a substring search (not a *)
(* full match); one satisfied criterion is enough (OR, not AND).           *)
C1_ExcludedIffSomeCriterionSatisfied ==
    /\ (IsAreAnyCall /\ ret.exc = "") => (ret.val <=> Tagged(CalledInstance))
    /\ (IsListCall /\ ret.exc = "") =>
           \A n \in 1..Len(AllInstances) :
               (\E j \in 1..Len(ret.val) :
                    ret.val[j].InstanceId = AllInstances[n].InstanceId)
                   <=> ~Tagged(AllInstances[n])

C1_Witness ==
    /\ IsAreAnyCall
    /\ ret = Return(TRUE)
    /\ \E k \in 1..Len(tags_filter) :
           /\ Satisfied(tags_filter[k], CalledInstance)
           /\ ~WholeMatches(tags_filter[k][2].v,
                            TagMapOf(CalledInstance)[tags_filter[k][1]].v)
    /\ \E k \in 1..Len(tags_filter) :
           /\ UsablePattern(tags_filter[k][2])
           /\ ~Satisfied(tags_filter[k], CalledInstance)

(* C2, as claimed: the filter has no error outcome; a criterion whose      *)
(* pattern is None or no valid regular expression counts as "no match".    *)
C2_NoErrorOutcome ==
    /\ (IsAreAnyCall \/ (IsListCall /\ \A n \in 1..Len(AllInstances) :
                                           WellFormed(AllInstances[n])))
           => ret.exc = ""
    /\ (IsAreAnyCall /\ ret.exc = "") => (ret.val <=> Tagged(CalledInstance))

(* C2, amended: are_any_filter_tags_on_instance completes normally exactly *)
(* when every criterion its loop reaches (all criteria up to the first     *)
(* satisfied one) has a pattern that is a valid regular expression string; *)
(* reaching a pattern that is None raises TypeError and reaching one that  *)
(* is no valid regular expression raises re.error, and                     *)
(* list_instances_without_tag lets the exception of the first such         *)
(* instance through instead of counting the criterion as "no match".       *)
C2_UnusablePatternRaises ==
    /\ IsAreAnyCall =>
           /\ ret.exc = "" <=> FirstUnusable(CalledInstance) = {}
           /\ \A k \in FirstUnusable(CalledInstance) :
                  ret.exc = IF tags_filter[k][2] = None THEN "TypeError" ELSE "error"
    /\ IsListCall =>
           /\ ret.exc = "" <=> \A n \in 1..Len(AllInstances) : ~Fails(AllInstances[n])
           /\ \A n \in 1..Len(AllInstances) :
                  (/\ WellFormed(AllInstances[n])
                   /\ \A m \in 1..(n - 1) : ~Fails(AllInstances[m]))
                      => \A k \in FirstUnusable(AllInstances[n]) :
                             ret.exc = IF tags_filter[k][2] = None
                                       THEN "TypeError" ELSE "error"

C2_Witness ==
    /\ IsListCall
    /\ ret.exc = "TypeError"
    /\ \E n \in 1..Len(AllInstances) :
           /\ \E k \in FirstUnusable(AllInstances[n]) : tags_filter[k][2] = None
           /\ \A m \in 1..(n - 1) : ~Fails(AllInstances[m])
    /\ \E n \in 1..Len(AllInstances) : ~Fails(AllInstances[n])

(* C5: the result of list_instances_without_tag holds exactly one summary  *)
(* record per untagged instance and none for a tagged one, in the order of *)
(* the input (reservations in order, instances within each in order): its  *)
(* InstanceIds are the input's InstanceIds restricted to the untagged      *)
(* instances.                                                              *)
C5_ResultFollowsInputOrder ==
    (IsListCall /\ ret.exc = "") =>
        /\ Len(ret.val) = Len(Untagged(AllInstances))
        /\ \A j \in 1..Len(ret.val) :
               ret.val[j].InstanceId = Untagged(AllInstances)[j].InstanceId

C5_Witness ==
    /\ IsListCall
    /\ ret.exc = ""
    /\ Len(ec2_instances.Reservations) = 2
    /\ Len(AllInstances) = 3
    /\ ~Tagged(AllInstances[1])
    /\ Tagged(AllInstances[2])
    /\ ~Tagged(AllInstances[3])
    /\ Len(ret.val) = 2
    /\ ret.val[1].InstanceId = InstanceId(1)
    /\ ret.val[2].InstanceId = InstanceId(3)

(* C6: every summary record of list_instances_without_tag carries the      *)
(* instance's InstanceId and, as Name, the value of its "Name" tag when    *)
(* the extracted tag map has one and the empty string otherwise; an        *)
(* instance with no tags at all always appears in the result, with         *)
(* Name = "".                                                              *)
C6_SummaryCarriesIdAndName ==
    (IsListCall /\ ret.exc = "") =>
        /\ \A j \in 1..Len(ret.val) :
               \E n \in 1..Len(AllInstances) :
                   /\ ret.val[j].InstanceId = AllInstances[n].InstanceId
                   /\ ret.val[j].Name =
                          IF SetPlaces(AllInstances[n], "Name") # {}
                          THEN TagsOf(AllInstances[n])
                                   [Last(SetPlaces(AllInstances[n], "Name"))].Value
                          ELSE Str(<<>>)
        /\ \A n \in 1..Len(AllInstances) :
               TagsOf(AllInstances[n]) = <<>> =>
                   \E j \in 1..Len(ret.val) :
                       ret.val[j] = [InstanceId |-> AllInstances[n].InstanceId,
                                     Name |-> Str(<<>>)]

C6_Witness ==
    /\ IsListCall
    /\ ret.exc = ""
    /\ tags_filter # <<>>
    /\ \E j \in 1..Len(ret.val) : ret.val[j].Name.v # <<>>
    /\ \E n \in 1..Len(AllInstances) :
           /\ ~HasTagsField(AllInstances[n])
           /\ \E j \in 1..Len(ret.val) :
                  ret.val[j] = [InstanceId |-> AllInstances[n].InstanceId,
                                Name |-> Str(<<>>)]
    /\ \E n \in 1..Len(AllInstances) :
           /\ SetPlaces(AllInstances[n], "Name") = {}
           /\ Places(AllInstances[n], "Name") # {}
           /\ \E j \in 1..Len(ret.val) :
                  ret.val[j] = [InstanceId |-> AllInstances[n].InstanceId,
                                Name |-> Str(<<>>)]

----------------------------------------------------------------------------
C10_ListHoldsOneStateFilterPerCall ==
    /\ Len(tag_filters) = Len(orig_filters) + Len(states_given)
    /\ SubSeq(tag_filters, 1, Len(orig_filters)) = orig_filters
    /\ \A k \in 1..Len(states_given) :
           tag_filters[Len(orig_filters) + k] =
               [Name |-> "instance-state-name", Values |-> <<states_given[k]>>]
    /\ sent => Filters = tag_filters

C10_Witness ==
    /\ Len(orig_filters) > 0
    /\ Len(states_given) = 2
    /\ ncalls = 3
    /\ sent
    /\ Len(Filters) = Len(orig_filters) + 2

=============================================================================
